---------------------------- MODULE Spec2Model ----------------------------
(***************************************************************************)
(* A model of the project generator of src/main.py:                       *)
(*   clean_ai_output, local_json_repair, ask_ai_stream,                   *)
(*   repair_json_with_ai and generate_project_with_progress.              *)
(*                                                                         *)
(* A Python str is a sequence of one-character strings.  A Python value   *)
(* (the result of json.loads, or None) is a record with the fields        *)
(* t (type tag), s (text), n (number), pairs (dict items, in insertion    *)
(* order) and items (list elements); json null and None are the same      *)
(* value, as they are in Python.                                           *)
(***************************************************************************)
EXTENDS Integers, Sequences, FiniteSets, TLC

----------------------------------------------------------------------------
(* Characters *)

Lower == {"a","b","c","d","e","f","g","h","i","j","k","l","m",
          "n","o","p","q","r","s","t","u","v","w","x","y","z"}
Upper == {"A","B","C","D","E","F","G","H","I","J","K","L","M",
          "N","O","P","Q","R","S","T","U","V","W","X","Y","Z"}
Digits == {"0","1","2","3","4","5","6","7","8","9"}

\* [a-zA-Z0-9] in the fence regex
AlNum == Lower \cup Upper \cup Digits

\* what str.strip() removes and \s matches, among the characters used here
PyWs == {" ", "\n", "\t", "\r"}

\* the whitespace json.loads accepts between tokens
JsonWs == {" ", "\n", "\t", "\r"}

\* characters json.loads (strict) rejects inside a string literal
ControlChars == {"\n", "\t", "\r"}

\* the backquote character (a TLA+ string cannot hold it, so it is named)
BackTick == "BQ"
Fence == <<BackTick, BackTick, BackTick>>

----------------------------------------------------------------------------
(* Text helpers: str.strip, str.startswith, str.endswith *)

RECURSIVE LStrip(_)
LStrip(s) == IF s # <<>> /\ Head(s) \in PyWs THEN LStrip(Tail(s)) ELSE s

RECURSIVE RStrip(_)
RStrip(s) ==
    IF s # <<>> /\ s[Len(s)] \in PyWs THEN RStrip(SubSeq(s, 1, Len(s) - 1)) ELSE s

Strip(s) == RStrip(LStrip(s))

StartsWith(s, p) == Len(s) >= Len(p) /\ SubSeq(s, 1, Len(p)) = p

EndsWith(s, p) == Len(s) >= Len(p) /\ SubSeq(s, Len(s) - Len(p) + 1, Len(s)) = p

\* the first index >= i of s that holds no character of set (Len(s)+1 if none)
RECURSIVE SkipSet(_, _, _)
SkipSet(s, i, set) ==
    IF i <= Len(s) /\ s[i] \in set THEN SkipSet(s, i + 1, set) ELSE i

----------------------------------------------------------------------------
(* Python values *)

PyNone == [t |-> "null", s |-> <<>>, n |-> 0, pairs |-> <<>>, items |-> <<>>]
PyStr(x) == [t |-> "str", s |-> x, n |-> 0, pairs |-> <<>>, items |-> <<>>]
PyNum(k) == [t |-> "num", s |-> <<>>, n |-> k, pairs |-> <<>>, items |-> <<>>]
PyBool(b) == [t |-> "bool", s |-> <<>>, n |-> IF b THEN 1 ELSE 0,
              pairs |-> <<>>, items |-> <<>>]
PyDict(ps) == [t |-> "dict", s |-> <<>>, n |-> 0, pairs |-> ps, items |-> <<>>]
PyList(xs) == [t |-> "list", s |-> <<>>, n |-> 0, pairs |-> <<>>, items |-> xs]

\* bool(v): None, "", 0, False, {} and [] are falsy
Truthy(v) ==
    IF v.t = "str" THEN v.s # <<>>
    ELSE IF v.t = "num" \/ v.t = "bool" THEN v.n # 0
    ELSE IF v.t = "dict" THEN v.pairs # <<>>
    ELSE IF v.t = "list" THEN v.items # <<>>
    ELSE FALSE

\* d[k] = v on a dict kept as a sequence of items: a repeated key keeps its
\* place and takes the new value
DictSet(ps, k, v) ==
    IF \E i \in 1..Len(ps) : ps[i].k = k
    THEN [i \in 1..Len(ps) |-> IF ps[i].k = k THEN [k |-> k, v |-> v] ELSE ps[i]]
    ELSE Append(ps, [k |-> k, v |-> v])

----------------------------------------------------------------------------
(* json.loads, on the JSON the model's texts can hold: objects, arrays,    *)
(* strings with the escapes \" \\ \/ \n \t, integers, true, false, null.   *)
(* Fractions, exponents, \u escapes, NaN and Infinity occur in no text of  *)
(* the model.                                                              *)

ParseFail == [ok |-> FALSE, val |-> PyNone, next |-> 0]
Parsed(v, i) == [ok |-> TRUE, val |-> v, next |-> i]

\* s holds the characters of lit from index i on
HasLit(s, i, lit) == i + Len(lit) - 1 <= Len(s) /\ SubSeq(s, i, i + Len(lit) - 1) = lit

DigitVal(c) ==
    CASE c = "0" -> 0 [] c = "1" -> 1 [] c = "2" -> 2 [] c = "3" -> 3 [] c = "4" -> 4
      [] c = "5" -> 5 [] c = "6" -> 6 [] c = "7" -> 7 [] c = "8" -> 8 [] c = "9" -> 9

\* a string literal; i is the index after the opening quote
RECURSIVE ScanString(_, _, _)
ScanString(s, i, acc) ==
    IF i > Len(s) THEN ParseFail
    ELSE IF s[i] = "\"" THEN Parsed(PyStr(acc), i + 1)
    ELSE IF s[i] = "\\" THEN
        IF i + 1 > Len(s) THEN ParseFail
        ELSE IF s[i + 1] \in {"\"", "\\", "/"}
             THEN ScanString(s, i + 2, Append(acc, s[i + 1]))
        ELSE IF s[i + 1] = "n" THEN ScanString(s, i + 2, Append(acc, "\n"))
        ELSE IF s[i + 1] = "t" THEN ScanString(s, i + 2, Append(acc, "\t"))
        ELSE ParseFail
    ELSE IF s[i] \in ControlChars THEN ParseFail
    ELSE ScanString(s, i + 1, Append(acc, s[i]))

\* the digits of an integer from index i on, most significant first
RECURSIVE ScanDigits(_, _, _)
ScanDigits(s, i, acc) ==
    IF i <= Len(s) /\ s[i] \in Digits
    THEN ScanDigits(s, i + 1, 10 * acc + DigitVal(s[i]))
    ELSE Parsed(PyNum(acc), i)

\* -?(0|[1-9][0-9]*)
ScanNumber(s, i) ==
    LET neg == s[i] = "-"
        j == IF neg THEN i + 1 ELSE i
    IN  IF j > Len(s) \/ s[j] \notin Digits THEN ParseFail
        ELSE LET r == IF s[j] = "0" THEN Parsed(PyNum(0), j + 1) ELSE ScanDigits(s, j, 0)
             IN  IF neg THEN Parsed(PyNum(0 - r.val.n), r.next) ELSE r

RECURSIVE ParseValue(_, _)
RECURSIVE ParseMembers(_, _, _)
RECURSIVE ParseElements(_, _, _)

\* a JSON value starting exactly at index i
ParseValue(s, i) ==
    IF i > Len(s) THEN ParseFail
    ELSE IF s[i] = "\"" THEN ScanString(s, i + 1, <<>>)
    ELSE IF s[i] = "{" THEN
        LET j == SkipSet(s, i + 1, JsonWs)
        IN  IF j <= Len(s) /\ s[j] = "}" THEN Parsed(PyDict(<<>>), j + 1)
            ELSE ParseMembers(s, j, <<>>)
    ELSE IF s[i] = "[" THEN
        LET j == SkipSet(s, i + 1, JsonWs)
        IN  IF j <= Len(s) /\ s[j] = "]" THEN Parsed(PyList(<<>>), j + 1)
            ELSE ParseElements(s, j, <<>>)
    ELSE IF HasLit(s, i, <<"n", "u", "l", "l">>) THEN Parsed(PyNone, i + 4)
    ELSE IF HasLit(s, i, <<"t", "r", "u", "e">>) THEN Parsed(PyBool(TRUE), i + 4)
    ELSE IF HasLit(s, i, <<"f", "a", "l", "s", "e">>) THEN Parsed(PyBool(FALSE), i + 5)
    ELSE IF s[i] \in Digits \cup {"-"} THEN ScanNumber(s, i)
    ELSE ParseFail

\* the members of an object; i is where a key's opening quote must be
ParseMembers(s, i, acc) ==
    IF i > Len(s) \/ s[i] # "\"" THEN ParseFail
    ELSE LET key == ScanString(s, i + 1, <<>>)
         IN  IF ~key.ok THEN ParseFail
             ELSE LET c == SkipSet(s, key.next, JsonWs)
                  IN  IF c > Len(s) \/ s[c] # ":" THEN ParseFail
                      ELSE LET v == ParseValue(s, SkipSet(s, c + 1, JsonWs))
                           IN  IF ~v.ok THEN ParseFail
                               ELSE LET acc2 == DictSet(acc, key.val.s, v.val)
                                        e == SkipSet(s, v.next, JsonWs)
                                    IN  IF e > Len(s) THEN ParseFail
                                        ELSE IF s[e] = "}" THEN Parsed(PyDict(acc2), e + 1)
                                        ELSE IF s[e] = ","
                                             THEN ParseMembers(s, SkipSet(s, e + 1, JsonWs), acc2)
                                        ELSE ParseFail

\* the elements of an array; i is where an element must start
ParseElements(s, i, acc) ==
    LET v == ParseValue(s, i)
    IN  IF ~v.ok THEN ParseFail
        ELSE LET acc2 == Append(acc, v.val)
                 e == SkipSet(s, v.next, JsonWs)
             IN  IF e > Len(s) THEN ParseFail
                 ELSE IF s[e] = "]" THEN Parsed(PyList(acc2), e + 1)
                 ELSE IF s[e] = ","
                      THEN ParseElements(s, SkipSet(s, e + 1, JsonWs), acc2)
                 ELSE ParseFail

\* json.loads(s): .ok is FALSE where Python raises JSONDecodeError
JsonLoads(s) ==
    LET v == ParseValue(s, SkipSet(s, 1, JsonWs))
    IN  IF v.ok /\ SkipSet(s, v.next, JsonWs) = Len(s) + 1 THEN v ELSE ParseFail

----------------------------------------------------------------------------
(* clean_ai_output *)

\* the opener regex without its ^ anchor: every fence in the text is removed
RECURSIVE RemoveOpenerAnywhere(_)
RemoveOpenerAnywhere(s) ==
    IF s = <<>> THEN <<>>
    ELSE IF StartsWith(s, Fence)
         THEN RemoveOpenerAnywhere(SubSeq(s, SkipSet(s, SkipSet(s, 4, AlNum), PyWs), Len(s)))
         ELSE <<Head(s)>> \o RemoveOpenerAnywhere(Tail(s))

\* re.sub(r"^(3 backquotes)[a-zA-Z0-9]*\s*", "", s): one opener at the very start
RemoveOpener(s) ==
    IF StartsWith(s, Fence)
    THEN LET j == SkipSet(s, SkipSet(s, 4, AlNum), PyWs)
         IN  SubSeq(s, j, Len(s))
    ELSE s

\* re.sub(r"(3 backquotes)$", "", s): $ is the end, or the place before a
\* final newline
RemoveCloser(s) ==
    IF EndsWith(s, Fence) THEN SubSeq(s, 1, Len(s) - 3)
    ELSE IF EndsWith(s, Fence \o <<"\n">>) THEN SubSeq(s, 1, Len(s) - 4) \o <<"\n">>
    ELSE s

clean_ai_output(output) == Strip(RemoveCloser(Strip(RemoveOpener(Strip(output)))))

----------------------------------------------------------------------------
(* local_json_repair *)

Closers == {"]", "}"}

\* re.sub(r",\s*([\]}])", r"\1", s): matches are found left to right and do
\* not overlap
RECURSIVE RemoveTrailingCommas(_, _)
RemoveTrailingCommas(s, i) ==
    IF i > Len(s) THEN <<>>
    ELSE LET j == SkipSet(s, i + 1, PyWs)
         IN  IF s[i] = "," /\ j <= Len(s) /\ s[j] \in Closers
             THEN <<s[j]>> \o RemoveTrailingCommas(s, j + 1)
             ELSE <<s[i]>> \o RemoveTrailingCommas(s, i + 1)

\* the quote rule without its lookbehind: every single quote is replaced
AllQuotesToDouble(s) ==
    [i \in 1..Len(s) |-> IF s[i] = "'" THEN "\"" ELSE s[i]]

\* re.sub(r"(?<!\\)'", '"', s)
SingleToDoubleQuotes(s) ==
    [i \in 1..Len(s) |->
        IF s[i] = "'" /\ ~(i > 1 /\ s[i - 1] = "\\") THEN "\"" ELSE s[i]]

AddOpener(s) ==
    IF ~StartsWith(s, <<"{">>) /\ ~StartsWith(s, <<"[">>) THEN <<"{">> \o s ELSE s

AddCloser(s) ==
    IF ~EndsWith(s, <<"}">>) /\ ~EndsWith(s, <<"]">>) THEN s \o <<"}">> ELSE s

local_json_repair(broken_json) ==
    AddCloser(AddOpener(SingleToDoubleQuotes(RemoveTrailingCommas(Strip(broken_json), 1))))

----------------------------------------------------------------------------
(* ask_ai_stream: decoding one line of the response stream *)

DataPrefix == <<"d", "a", "t", "a", ":", " ">>
KeyChoices == <<"c", "h", "o", "i", "c", "e", "s">>
KeyDelta == <<"d", "e", "l", "t", "a">>
KeyContent == <<"c", "o", "n", "t", "e", "n", "t">>

\* d.get(key, default) on a dict
DictGet(d, key, default) ==
    IF \E i \in 1..Len(d.pairs) : d.pairs[i].k = key
    THEN d.pairs[CHOOSE i \in 1..Len(d.pairs) : d.pairs[i].k = key].v
    ELSE default

NoDelta == [kind |-> "skip", val |-> PyNone]
Raises == [kind |-> "raise", val |-> PyNone]

\* payload.get("choices", [{}])[0].get("delta", {}).get("content", ""):
\* "raise" where Python raises (AttributeError, IndexError, KeyError,
\* TypeError), which the inner except swallows
ContentOf(payload) ==
    IF payload.t # "dict" THEN Raises
    ELSE LET choices == DictGet(payload, KeyChoices, PyList(<<PyDict(<<>>)>>))
         IN  IF choices.t # "list" \/ choices.items = <<>> THEN Raises
             ELSE LET first == choices.items[1]
                  IN  IF first.t # "dict" THEN Raises
                      ELSE LET delta == DictGet(first, KeyDelta, PyDict(<<>>))
                           IN  IF delta.t # "dict" THEN Raises
                               ELSE [kind |-> "delta",
                                     val |-> DictGet(delta, KeyContent, PyStr(<<>>))]

\* lines 83-88: what one line of the stream yields
LineDelta(line) ==
    IF line = <<>> \/ Strip(line) = <<>> THEN NoDelta
    ELSE IF ~StartsWith(line, DataPrefix) THEN NoDelta
    ELSE LET payload == JsonLoads(SubSeq(line, Len(DataPrefix) + 1, Len(line)))
         IN  IF ~payload.ok THEN Raises
             ELSE LET c == ContentOf(payload.val)
                  IN  IF c.kind = "delta" /\ ~Truthy(c.val) THEN NoDelta ELSE c

\* lines 89-92: full_output after a line; print is called first and may
\* raise, and str += non-str raises TypeError; the except keeps full_output
Accumulate(full, d, printOk) ==
    IF d.kind = "delta" /\ printOk /\ d.val.t = "str" THEN full \o d.val.s ELSE full

----------------------------------------------------------------------------
(* The filesystem under the working directory.  A path is a sequence of    *)
(* segments; an absolute path starts with the segment Slash.               *)

Slash == <<"/">>
DotDot == <<".", ".">>
Dot == <<".">>

\* output_dir = Path("generated_code") / "hibye"
OutputDir == << <<"g", "e", "n", "e", "r", "a", "t", "e", "d", "_", "c", "o", "d", "e">>,
                <<"h", "i", "b", "y", "e">> >>

\* the segments of a path text, as pathlib keeps them: empty segments and
\* "." are dropped, ".." is kept
RECURSIVE SplitPath(_, _, _, _)
SplitPath(s, i, cur, acc) ==
    LET push == IF cur = <<>> \/ cur = Dot THEN acc ELSE Append(acc, cur)
    IN  IF i > Len(s) THEN push
        ELSE IF s[i] = "/" THEN SplitPath(s, i + 1, <<>>, push)
        ELSE SplitPath(s, i + 1, Append(cur, s[i]), acc)

\* output_dir / rel_path: an absolute rel_path replaces output_dir
JoinPath(base, rel_path) ==
    IF StartsWith(rel_path, <<"/">>)
    THEN <<Slash>> \o SplitPath(rel_path, 1, <<>>, <<>>)
    ELSE base \o SplitPath(rel_path, 1, <<>>, <<>>)

\* file_path.parent
Parent(p) == IF p = <<>> THEN p ELSE SubSeq(p, 1, Len(p) - 1)

\* the place a path names once the operating system has followed its ".."
RECURSIVE ResolveFrom(_, _)
ResolveFrom(p, stack) ==
    IF p = <<>> THEN stack
    ELSE IF Head(p) = DotDot
         THEN IF stack = <<>> \/ stack[Len(stack)] = DotDot
              THEN ResolveFrom(Tail(p), Append(stack, DotDot))
              ELSE IF stack[Len(stack)] = Slash THEN ResolveFrom(Tail(p), stack)
              ELSE ResolveFrom(Tail(p), SubSeq(stack, 1, Len(stack) - 1))
         ELSE ResolveFrom(Tail(p), Append(stack, Head(p)))

Resolve(p) == ResolveFrom(p, <<>>)

\* directories that exist before the run: the working directory, its
\* ancestors and the filesystem root
PreExisting(loc) ==
    \/ loc = <<>>
    \/ loc = <<Slash>>
    \/ \A i \in 1..Len(loc) : loc[i] = DotDot

\* the places mkdir(parents=True) visits for a directory path
DirChain(p) == {Resolve(SubSeq(p, 1, n)) : n \in 1..Len(p)} \ {loc \in {Resolve(SubSeq(p, 1, n)) : n \in 1..Len(p)} : PreExisting(loc)}

\* parent.mkdir(parents=True, exist_ok=True) raises when a place on the way
\* is a regular file
MkdirOk(p, files_on_disk) == \A loc \in DirChain(p) : loc \notin DOMAIN files_on_disk

\* write_text(content) raises TypeError for a non-str content before it
\* opens the file, and IsADirectoryError when the place is a directory
WriteOk(loc, content, directories) ==
    /\ content.t = "str"
    /\ loc \notin directories
    /\ ~PreExisting(loc)

InsideRoot(loc) ==
    Len(loc) > Len(OutputDir) /\ SubSeq(loc, 1, Len(OutputDir)) = OutputDir

----------------------------------------------------------------------------
(* Progress events (the strings the generator yields) *)

Event(tag, why, path, text) == [tag |-> tag, why |-> why, path |-> path, text |-> text]

\* line 138
Started == Event("Started", "", <<>>, <<>>)
\* lines 118, 147
Failed(why) == Event("Failed", why, <<>>, <<>>)
\* line 164: the error is that of json.loads(repaired_json)
FailedParse(repaired_json) == Event("Failed", "CouldNotFix", <<>>, repaired_json)
\* line 172
FileWritten(file_path) == Event("FileWritten", "", file_path, <<>>)
\* line 175
Completed(root) == Event("Completed", "", root, <<>>)

----------------------------------------------------------------------------
(* Inputs *)

\* how many leading characters of the model's text the first chunk may carry
MaxSplit == 2

\* how many tokens a text given to the text functions may be made of
MaxTokens == 4

\* raw model outputs (the text the stream delivers)
FencedOneFile == <<BackTick, BackTick, BackTick, "j", "s", "o", "n", "\n", "{", "\"", "a", ".", "t", "x", "t", "\"", ":", " ", "\"", "h", "i", "\"", "}", "\n", BackTick, BackTick, BackTick>>
TwoFiles == <<"{", "\"", "a", ".", "t", "x", "t", "\"", ":", "\"", "h", "i", "\"", ",", "\"", "d", "/", "b", ".", "t", "x", "t", "\"", ":", "\"", "y", "o", "\"", "}">>
TrailingComma == <<"{", "\"", "a", ".", "t", "x", "t", "\"", ":", " ", "\"", "h", "i", "\"", ",", "}">>
Truncated == <<"{", "\"", "a", ".", "t", "x", "t", "\"", ":", " ", "\"", "h", "i", "\"">>
Prose == <<"o", "o", "p", "s">>
EscapingKey == <<"{", "\"", ".", ".", "/", "e", ".", "t", "x", "t", "\"", ":", "\"", "x", "\"", "}">>
AbsoluteKey == <<"{", "\"", "/", "a", "b", "s", ".", "t", "x", "t", "\"", ":", "\"", "x", "\"", "}">>
NonObject == <<"[", "\"", "a", "\"", "]">>
NonTextValue == <<"{", "\"", "a", ".", "t", "x", "t", "\"", ":", "\"", "h", "i", "\"", ",", "\"", "b", ".", "t", "x", "t", "\"", ":", "1", "}">>
FileThenDir == <<"{", "\"", "a", "\"", ":", "\"", "x", "\"", ",", "\"", "a", "/", "b", "\"", ":", "\"", "y", "\"", "}">>
EmptyObject == <<"{", "}">>
RepairedFile == <<"{", "\"", "r", ".", "t", "x", "t", "\"", ":", "\"", "o", "k", "\"", "}">>

\* the most entries the FileMap of one run of the UI has
MaxEntries == 2

RawSamples ==
    {FencedOneFile, TwoFiles, TrailingComma, Truncated, Prose, EscapingKey,
     AbsoluteKey, NonObject, NonTextValue, FileThenDir, EmptyObject, <<>>}

\* what ask_ai returns to repair_json_with_ai: None on a failed request,
\* else the content of the reply
RemoteReplies ==
    {PyNone, PyStr(<<>>), PyStr(RepairedFile), PyStr(EmptyObject), PyStr(Prose),
     PyStr(NonObject)}

\* a JSON string literal for a text (the encoding the server applies)
RECURSIVE JsonEscape(_)
JsonEscape(s) ==
    IF s = <<>> THEN <<>>
    ELSE (IF Head(s) = "\"" THEN <<"\\", "\"">>
          ELSE IF Head(s) = "\\" THEN <<"\\", "\\">>
          ELSE IF Head(s) = "\n" THEN <<"\\", "n">>
          ELSE IF Head(s) = "\t" THEN <<"\\", "t">>
          ELSE <<Head(s)>>) \o JsonEscape(Tail(s))

\* a well-formed line of the stream: data: {"choices":[{"delta":{"content":"..."}}]}
ChunkLine(fragment) ==
    DataPrefix
    \o <<"{", "\"">> \o KeyChoices \o <<"\"", ":", "[", "{", "\"">> \o KeyDelta
    \o <<"\"", ":", "{", "\"">> \o KeyContent \o <<"\"", ":", "\"">>
    \o JsonEscape(fragment) \o <<"\"", "}", "}", "]", "}">>

\* lines that carry no fragment: blank, a comment, undecodable payloads, and
\* payloads of the wrong shape
JunkLines ==
    {<<>>,
     <<":", " ", "p", "i", "n", "g">>,
     DataPrefix \o <<"{", "o", "o", "p", "s">>,
     DataPrefix \o <<"[", "D", "O", "N", "E", "]">>,
     DataPrefix \o <<"{", "\"">> \o KeyChoices \o <<"\"", ":", "[", "]", "}">>,
     DataPrefix \o <<"{", "\"">> \o KeyChoices \o <<"\"", ":", "[", "{", "\"">> \o KeyDelta
        \o <<"\"", ":", "{", "\"">> \o KeyContent \o <<"\"", ":", "7", "}", "}", "]", "}">>}

Min(a, b) == IF a < b THEN a ELSE b

\* the stream of a model output: its first k characters, a line that
\* carries nothing, the rest
StreamOf(text, k, junk) ==
    <<ChunkLine(SubSeq(text, 1, Min(k, Len(text)))), junk,
      ChunkLine(SubSeq(text, Min(k, Len(text)) + 1, Len(text)))>>

\* texts for the text functions, made of at most MaxTokens tokens
TextTokens == {Fence, <<BackTick>>, <<"j">>, <<" ">>, <<"\n">>, <<"{">>, <<"}">>}

RECURSIVE Flatten(_)
Flatten(ss) == IF ss = <<>> THEN <<>> ELSE Head(ss) \o Flatten(Tail(ss))

Texts == {Flatten(ts) : ts \in UNION {[1..n -> TextTokens] : n \in 0..MaxTokens}}

\* the characters local_json_repair looks at, and one it does not
RepairTokens ==
    {<<",">>, <<" ">>, <<"}">>, <<"]">>, <<"{">>, <<"[">>, <<"'">>, <<"\\">>, <<"j">>}

RepairTexts ==
    {Flatten(ts) : ts \in UNION {[1..n -> RepairTokens] : n \in 0..MaxTokens}}

----------------------------------------------------------------------------
(* State *)

VARIABLES
    pc,             \* where generate_project_with_progress is
    lines,          \* the lines resp.iter_lines() will deliver
    li,             \* the next line of the stream
    full_output,    \* ask_ai_stream: the text accumulated so far
    console,        \* the fragments print() has shown
    streamEnd,      \* "open", "graceful" or "error"
    project_code,   \* what ask_ai_stream returned
    cleaned,        \* clean_ai_output(project_code)
    fixed,          \* what ask_ai returned to repair_json_with_ai
    files,          \* the parse result handed to the write loop
    tier,           \* which parse produced files: none, direct, remote, local
    remoteCalls,    \* calls of repair_json_with_ai
    localCalls,     \* calls of local_json_repair
    events,         \* the strings yielded so far
    wi,             \* the next entry of files.items()
    dirs,           \* directories created
    disk,           \* files written: place -> content
    txt,            \* a text given to clean_ai_output
    once,           \* clean_ai_output(txt)
    twice,          \* clean_ai_output(once)
    tpc,            \* where the text run is
    repaired,       \* local_json_repair(txt)
    calls,          \* the calls the run has made, in order, with their text argument
    clicked,        \* app.py: the Generate button was clicked
    hpc,            \* app.py: where each click listener is
    hleft,          \* app.py: the entries each listener's run has still to write
    rootLog,        \* app.py: the listeners' writes under the project root, in order
    ai_status       \* app.py: the status line

vars == <<pc, lines, li, full_output, console, streamEnd, project_code, cleaned,
          fixed, files, tier, remoteCalls, localCalls, events, wi, dirs, disk,
          txt, once, twice, tpc, repaired, calls, clicked, hpc, hleft, rootLog,
          ai_status>>

streamVars == <<lines, li, full_output, console, streamEnd, project_code>>
tierVars == <<cleaned, fixed, files, tier, remoteCalls, localCalls, calls>>
fsVars == <<wi, dirs, disk>>
textVars == <<txt, once, twice, tpc, repaired>>
appVars == <<clicked, hpc, hleft, rootLog, ai_status>>

NoFiles == [x \in {} |-> <<>>]

\* the two listeners of generate_btn.click (app.py lines 33 and 34)
Listeners == {"run_with_status", "gradio_all_in_one"}

\* app.py before any click
AppIdle ==
    /\ clicked = FALSE
    /\ hpc = [h \in Listeners |-> "idle"]
    /\ hleft = [h \in Listeners |-> 0]
    /\ rootLog = <<>>
    /\ ai_status = "Idle"

Idle ==
    /\ li = 1
    /\ full_output = <<>>
    /\ console = <<>>
    /\ streamEnd = "open"
    /\ project_code = PyNone
    /\ cleaned = <<>>
    /\ fixed = PyNone
    /\ files = PyNone
    /\ tier = "none"
    /\ remoteCalls = 0
    /\ localCalls = 0
    /\ calls = <<>>
    /\ events = <<>>
    /\ wi = 1
    /\ dirs = {}
    /\ disk = NoFiles

Init ==
    /\ pc = "start"
    /\ \E text \in RawSamples, k \in 0..MaxSplit, junk \in JunkLines :
           lines = StreamOf(text, k, junk)
    /\ Idle
    /\ AppIdle
    /\ txt = <<>> /\ once = <<>> /\ twice = <<>> /\ repaired = <<>> /\ tpc = "off"

----------------------------------------------------------------------------
(* generate_project_with_progress *)

\* the return of line 119 left out
AfterMissingPromptGoesOn == "stream"

\* lines 118-119: the run ends after the missing-prompt message
AfterMissingPrompt == "done"

\* lines 116-119, 138: the prompt file is read, then the first yield
Start ==
    /\ pc = "start"
    /\ \E promptExists \in BOOLEAN :
           IF promptExists
           THEN events' = Append(events, Started) /\ pc' = "stream"
           ELSE /\ events' = Append(events, Failed("MissingPrompt"))
                /\ pc' = AfterMissingPrompt
    /\ UNCHANGED <<streamVars, tierVars, fsVars, textVars, appVars>>

\* lines 82-92: one line of the stream; print is reached with a truthy delta
StreamLine ==
    /\ pc = "stream"
    /\ li <= Len(lines)
    /\ LET d == LineDelta(lines[li])
       IN  \E printOk \in BOOLEAN :
               /\ d.kind # "delta" => printOk
               /\ console' = IF d.kind = "delta" /\ printOk
                             THEN Append(console, d.val) ELSE console
               /\ full_output' = Accumulate(full_output, d, printOk)
    /\ li' = li + 1
    /\ UNCHANGED <<pc, lines, streamEnd, project_code, tierVars, events, fsVars, textVars, appVars>>

\* what ask_ai_stream returns when the request or the stream raises (line 97)
OnStreamError(full) == PyNone

\* lines 78-79, 82, 95-97: the request fails, or the stream breaks
StreamError ==
    /\ pc = "stream"
    /\ streamEnd' = "error"
    /\ project_code' = OnStreamError(full_output)
    /\ pc' = "got"
    /\ UNCHANGED <<lines, li, full_output, console, tierVars, events, fsVars, textVars, appVars>>

\* lines 93-94: the stream ends
StreamEnd ==
    /\ pc = "stream"
    /\ li > Len(lines)
    /\ streamEnd' = "graceful"
    /\ project_code' = PyStr(full_output)
    /\ pc' = "got"
    /\ UNCHANGED <<lines, li, full_output, console, tierVars, events, fsVars, textVars, appVars>>

\* one call the run makes: the function, the source line, the text it is given
Call(fn, line, arg) == [fn |-> fn, line |-> line, arg |-> arg]

\* line 146
NoAiOutput(code) == ~Truthy(code)

\* a repair attempted even though the direct parse succeeded
AfterDirectAlwaysRepairs(parsed) == "remote"

\* lines 153-156: the tier after the direct parse
AfterDirect(parsed) == IF parsed.ok THEN "write" ELSE "remote"

\* lines 146-156
ParseDirect ==
    /\ pc = "got"
    /\ IF NoAiOutput(project_code)
       THEN /\ events' = Append(events, Failed("NoOutput"))
            /\ pc' = "done"
            /\ UNCHANGED tierVars
       ELSE LET c == clean_ai_output(project_code.s)
                parsed == JsonLoads(c)
            IN  /\ cleaned' = c
                /\ calls' = calls \o <<Call("clean_ai_output", 150, project_code.s),
                                       Call("json.loads", 154, c)>>
                /\ pc' = AfterDirect(parsed)
                /\ files' = IF parsed.ok THEN parsed.val ELSE files
                /\ tier' = IF parsed.ok THEN "direct" ELSE tier
                /\ UNCHANGED <<fixed, remoteCalls, localCalls, events>>
    /\ UNCHANGED <<streamVars, fsVars, textVars, appVars>>

\* lines 104-110: what repair_json_with_ai returns for ask_ai's reply
repair_json_with_ai(reply) ==
    IF Truthy(reply)
    THEN LET parsed == JsonLoads(clean_ai_output(reply.s))
         IN  IF parsed.ok THEN parsed.val ELSE PyNone
    ELSE PyNone

\* lines 101-109: the calls repair_json_with_ai makes, in order
RemoteRepairCalls(broken_json, reply) ==
    <<Call("console.print", 101, <<>>), Call("ask_ai", 103, broken_json)>>
    \o (IF Truthy(reply)
        THEN LET fixed_clean == clean_ai_output(reply.s)
             IN  <<Call("clean_ai_output", 105, reply.s),
                   Call("json.loads", 107, fixed_clean)>>
                 \o (IF JsonLoads(fixed_clean).ok
                     THEN <<>>
                     ELSE <<Call("console.print", 109, <<>>)>>)
        ELSE <<>>)

\* line 157
RepairFailed(f) == ~Truthy(f)

\* lines 156-157, 99-110
RepairRemote ==
    /\ pc = "remote"
    /\ \E reply \in RemoteReplies :
           /\ fixed' = reply
           /\ files' = repair_json_with_ai(reply)
           /\ calls' = calls \o RemoteRepairCalls(cleaned, reply)
    /\ remoteCalls' = remoteCalls + 1
    /\ pc' = IF RepairFailed(files') THEN "local" ELSE "write"
    /\ tier' = IF RepairFailed(files') THEN tier ELSE "remote"
    /\ UNCHANGED <<cleaned, localCalls, events, streamVars, fsVars, textVars, appVars>>

\* the return of line 165 left out
AfterLocalFailureFallsThrough == "write"

\* lines 163-165: where the run goes when the repaired text does not parse
AfterLocalFailure == "done"

\* the local repair given the remote repairer's reply
LocalRepairOfRemoteText(c, reply) == IF reply.t = "str" THEN reply.s ELSE c

\* line 159: the text local_json_repair is given
LocalRepairInput(c, reply) == c

\* lines 158-165
RepairLocal ==
    /\ pc = "local"
    /\ localCalls' = localCalls + 1
    /\ LET broken_json == LocalRepairInput(cleaned, fixed)
           repaired_json == local_json_repair(broken_json)
           parsed == JsonLoads(repaired_json)
       IN  /\ calls' = calls \o <<Call("console.print", 158, <<>>),
                                  Call("local_json_repair", 159, broken_json),
                                  Call("json.loads", 161, repaired_json)>>
                              \o (IF parsed.ok
                                  THEN <<Call("console.print", 162, <<>>)>>
                                  ELSE <<>>)
           /\ IF parsed.ok
              THEN /\ files' = parsed.val
                   /\ tier' = "local"
                   /\ pc' = "write"
                   /\ UNCHANGED events
              ELSE /\ events' = Append(events, FailedParse(repaired_json))
                   /\ pc' = AfterLocalFailure
                   /\ UNCHANGED <<files, tier>>
    /\ UNCHANGED <<cleaned, fixed, remoteCalls, streamVars, fsVars, textVars, appVars>>

\* the entries taken last first
EntryAtReversed(f, i) == f.pairs[Len(f.pairs) + 1 - i]

\* line 168: files.items() in insertion order
EntryAt(f, i) == f.pairs[i]

DiskWrite(d, loc, text) ==
    [x \in DOMAIN d \cup {loc} |-> IF x = loc THEN text ELSE d[x]]

\* the files of the run taken back when an entry cannot be written
OnWriteFailureRollsBack(d) == NoFiles

\* lines 168-172: no handler around the loop; the files written stay
OnWriteFailure(d) == d

\* lines 168-172: one turn of the write loop; an exception leaves the
\* generator without a further yield
WriteEntry ==
    /\ pc = "write"
    /\ files.t = "dict"
    /\ wi <= Len(files.pairs)
    /\ LET entry == EntryAt(files, wi)
           file_path == JoinPath(OutputDir, entry.k)
           made == dirs \cup DirChain(Parent(file_path))
       IN  IF ~MkdirOk(Parent(file_path), disk)
           THEN /\ pc' = "crashed"
                /\ disk' = OnWriteFailure(disk)
                /\ UNCHANGED <<events, wi, dirs>>
           ELSE IF ~WriteOk(Resolve(file_path), entry.v, made)
           THEN /\ pc' = "crashed"
                /\ dirs' = made
                /\ disk' = OnWriteFailure(disk)
                /\ UNCHANGED <<events, wi>>
           ELSE /\ dirs' = made
                /\ disk' = DiskWrite(disk, Resolve(file_path), entry.v.s)
                /\ events' = Append(events, FileWritten(file_path))
                /\ wi' = wi + 1
                /\ pc' = "write"
    /\ UNCHANGED <<streamVars, tierVars, textVars, appVars>>

\* line 168: files.items() on a value that is no dict raises AttributeError
WriteNonDict ==
    /\ pc = "write"
    /\ files.t # "dict"
    /\ pc' = "crashed"
    /\ UNCHANGED <<events, streamVars, tierVars, fsVars, textVars, appVars>>

\* line 175
Complete ==
    /\ pc = "write"
    /\ files.t = "dict"
    /\ wi > Len(files.pairs)
    /\ events' = Append(events, Completed(OutputDir))
    /\ pc' = "done"
    /\ UNCHANGED <<streamVars, tierVars, fsVars, textVars, appVars>>

Next ==
    \/ Start
    \/ StreamLine
    \/ StreamError
    \/ StreamEnd
    \/ ParseDirect
    \/ RepairRemote
    \/ RepairLocal
    \/ WriteEntry
    \/ WriteNonDict
    \/ Complete

Spec == Init /\ [][Next]_vars

----------------------------------------------------------------------------
(* clean_ai_output applied to a text, and to its own result *)

TextInit ==
    /\ pc = "off"
    /\ lines = <<>>
    /\ Idle
    /\ AppIdle
    /\ txt \in Texts
    /\ once = <<>> /\ twice = <<>> /\ repaired = <<>> /\ tpc = "in"

CleanOnce ==
    /\ tpc = "in"
    /\ once' = clean_ai_output(txt)
    /\ tpc' = "once"
    /\ UNCHANGED <<pc, streamVars, tierVars, events, fsVars, appVars, txt, twice, repaired>>

CleanTwice ==
    /\ tpc = "once"
    /\ twice' = clean_ai_output(once)
    /\ tpc' = "twice"
    /\ UNCHANGED <<pc, streamVars, tierVars, events, fsVars, appVars, txt, once, repaired>>

TextNext == CleanOnce \/ CleanTwice

TextSpec == TextInit /\ [][TextNext]_vars

----------------------------------------------------------------------------
(* local_json_repair applied to a text *)

RepairInit ==
    /\ pc = "off"
    /\ lines = <<>>
    /\ Idle
    /\ AppIdle
    /\ txt \in RepairTexts
    /\ once = <<>> /\ twice = <<>> /\ repaired = <<>> /\ tpc = "in"

Repair ==
    /\ tpc = "in"
    /\ repaired' = local_json_repair(txt)
    /\ tpc' = "repaired"
    /\ UNCHANGED <<pc, streamVars, tierVars, events, fsVars, appVars, txt, once, twice>>

RepairNext == Repair

RepairSpec == RepairInit /\ [][RepairNext]_vars

----------------------------------------------------------------------------
(* app.py: the Generate button and its two click listeners *)

mainVars == <<pc, streamVars, tierVars, events, fsVars, textVars>>

AppInit ==
    /\ pc = "off"
    /\ lines = <<>>
    /\ Idle
    /\ AppIdle
    /\ txt = <<>> /\ once = <<>> /\ twice = <<>> /\ repaired = <<>> /\ tpc = "off"

\* one step of a run on what the two runs share: the remote service and the
\* project root
RunStep(h, op) == [by |-> h, op |-> op]

\* lines 33-34: one click of generate_btn queues every listener registered on it
Click ==
    /\ ~clicked
    /\ clicked' = TRUE
    /\ hpc' = [h \in Listeners |-> "queued"]
    /\ UNCHANGED <<hleft, rootLog, ai_status, mainVars>>

\* line 25: run_with_status yields the status before it starts its run
StatusGenerating ==
    /\ hpc["run_with_status"] = "queued"
    /\ hpc' = [hpc EXCEPT !["run_with_status"] = "entered"]
    /\ ai_status' = "Generating"
    /\ UNCHANGED <<clicked, hleft, rootLog, mainVars>>

\* where a listener stands right before its for loop
BeforeRun(h) == IF h = "run_with_status" THEN "entered" ELSE "queued"

\* lines 11 and 26, main.py 116-145: the listener starts its own run of
\* generate_project_with_progress(task), which sends its request
RunStart(h) ==
    /\ hpc[h] = BeforeRun(h)
    /\ hpc' = [hpc EXCEPT ![h] = "streaming"]
    /\ rootLog' = Append(rootLog, RunStep(h, "ask_ai_stream"))
    /\ UNCHANGED <<clicked, hleft, ai_status, mainVars>>

\* lines 27-32: the status line after a progress message of the run
StatusAfter(h, failed, status) ==
    IF h = "run_with_status" /\ failed THEN "Error" ELSE status

\* main.py 146-165: the run has its model output; it fails, or it has a FileMap
RunParsed(h) ==
    /\ hpc[h] = "streaming"
    /\ \E failed \in BOOLEAN, n \in 0..MaxEntries :
           /\ failed => n = 0
           /\ hpc' = [hpc EXCEPT ![h] = IF failed THEN "done" ELSE "writing"]
           /\ hleft' = [hleft EXCEPT ![h] = n]
           /\ ai_status' = StatusAfter(h, failed, ai_status)
    /\ UNCHANGED <<clicked, rootLog, mainVars>>

\* main.py 168-172: the run writes one entry under the project root
RunWrite(h) ==
    /\ hpc[h] = "writing"
    /\ hleft[h] > 0
    /\ hleft' = [hleft EXCEPT ![h] = hleft[h] - 1]
    /\ rootLog' = Append(rootLog, RunStep(h, "write_text"))
    /\ UNCHANGED <<clicked, hpc, ai_status, mainVars>>

\* main.py 175, lines 27-32: the last message starts with neither text the
\* status listener looks for, so the status line stays
RunComplete(h) ==
    /\ hpc[h] = "writing"
    /\ hleft[h] = 0
    /\ hpc' = [hpc EXCEPT ![h] = "done"]
    /\ ai_status' = StatusAfter(h, FALSE, ai_status)
    /\ UNCHANGED <<clicked, hleft, rootLog, mainVars>>

AppNext ==
    \/ Click
    \/ StatusGenerating
    \/ \E h \in Listeners : RunStart(h)
    \/ \E h \in Listeners : RunParsed(h)
    \/ \E h \in Listeners : RunWrite(h)
    \/ \E h \in Listeners : RunComplete(h)

AppSpec == AppInit /\ [][AppNext]_vars

----------------------------------------------------------------------------
(* Properties *)

DirectParsed == JsonLoads(clean_ai_output(project_code.s))
RemoteParsed == JsonLoads(clean_ai_output(fixed.s))
LocalParsed == JsonLoads(local_json_repair(clean_ai_output(project_code.s)))

HasEvent(tag) == \E i \in 1..Len(events) : events[i].tag = tag
CountEvents(tag) == Cardinality({i \in 1..Len(events) : events[i].tag = tag})

\* the remote repair was called and returned text that parses as JSON
RemoteReturnedJson == remoteCalls = 1 /\ fixed.t = "str" /\ RemoteParsed.ok

\* C1: whenever the direct parse fails and the remote repair returns text
\* that parses as valid JSON (an empty object included), the value handed to
\* the write loop is the remote parse result and local_json_repair is never
\* called.
C1_TierOrdering ==
    RemoteReturnedJson =>
        /\ localCalls = 0
        /\ pc # "local"
        /\ files = RemoteParsed.val

\* the direct parse failed, the remote repair gave no output or unparsable
\* output, and the locally repaired text does not parse either
AllTiersFail ==
    /\ Truthy(project_code)
    /\ ~DirectParsed.ok
    /\ remoteCalls = 1
    /\ ~(fixed.t = "str" /\ RemoteParsed.ok)
    /\ ~LocalParsed.ok

\* C2: when the direct parse, the remote repair and the parse of the locally
\* repaired text all fail, the run ends with the events Started and exactly
\* one Failed (carrying the error of the last parse), with no FileWritten
\* and no Completed event, and nothing is created or written on disk.
C2_TerminalFailure ==
    AllTiersFail =>
        /\ disk = NoFiles
        /\ dirs = {}
        /\ ~HasEvent("FileWritten")
        /\ ~HasEvent("Completed")
        /\ pc \in {"local", "done"}
        /\ pc = "local" => events = <<Started>>
        /\ pc = "done" =>
               events = <<Started,
                          FailedParse(local_json_repair(clean_ai_output(project_code.s)))>>

C2_Witness ==
    /\ AllTiersFail
    /\ pc = "done"
    /\ localCalls = 1
    /\ CountEvents("Failed") = 1

\* C3: whenever the direct parse of the sanitized stream text succeeds, the
\* value handed to the write loop is exactly that parse result, and neither
\* the remote repair nor local_json_repair is called in the run.
C3_CleanInput ==
    (pc \notin {"start", "stream", "got", "off"} /\ Truthy(project_code) /\ DirectParsed.ok) =>
        /\ files = DirectParsed.val
        /\ tier = "direct"
        /\ remoteCalls = 0
        /\ localCalls = 0
        /\ pc \in {"write", "done", "crashed"}

C3_Witness ==
    /\ pc = "done"
    /\ Truthy(project_code)
    /\ DirectParsed.ok
    /\ DirectParsed.val.t = "dict"
    /\ DirectParsed.val.pairs # <<>>
    /\ HasEvent("Completed")

\* a key that stays under the project root: relative, with no ".." segment
SafeKey(k) ==
    LET segs == SplitPath(k, 1, <<>>, <<>>)
    IN  /\ ~StartsWith(k, <<"/">>)
        /\ segs # <<>>
        /\ \A i \in 1..Len(segs) : segs[i] # DotDot

\* a mapping from safe relative paths to text
IsFileMap(f) ==
    /\ f.t = "dict"
    /\ \A i \in 1..Len(f.pairs) : f.pairs[i].v.t = "str" /\ SafeKey(f.pairs[i].k)

\* the FileWritten events of the first n entries, in insertion order
WrittenEvents(f, n) == [i \in 1..n |-> FileWritten(JoinPath(OutputDir, f.pairs[i].k))]

Recovered == tier # "none" /\ IsFileMap(files) /\ pc \in {"write", "done", "crashed"}

\* the write of entry wi raises
WriteFails ==
    /\ wi <= Len(files.pairs)
    /\ LET file_path == JoinPath(OutputDir, files.pairs[wi].k)
       IN  \/ ~MkdirOk(Parent(file_path), disk)
           \/ ~WriteOk(Resolve(file_path), files.pairs[wi].v,
                       dirs \cup DirChain(Parent(file_path)))

\* C4 as stated: for every recovered FileMap the run ends with one
\* FileWritten event per entry, in insertion order, followed by exactly one
\* Completed event carrying the project root, which is the last event.
C4_WriteOrderAlways ==
    (Recovered /\ pc \in {"done", "crashed"}) =>
        events = <<Started>> \o WrittenEvents(files, Len(files.pairs))
                     \o <<Completed(OutputDir)>>

\* C4, amended: for every recovered FileMap, the FileWritten events are
\* those of the entries written so far, in insertion order, each emitted
\* with that entry's file on disk; the run stops early only where the write
\* of an entry raises, and a run in which every entry is written ends with
\* one FileWritten event per entry followed by exactly one Completed event
\* carrying the project root, which is the last event.
C4_WriteOrder ==
    Recovered =>
        /\ wi <= Len(files.pairs) + 1
        /\ events = <<Started>> \o WrittenEvents(files, wi - 1)
                        \o (IF pc = "done" THEN <<Completed(OutputDir)>> ELSE <<>>)
        /\ pc = "done" => wi = Len(files.pairs) + 1
        /\ pc = "crashed" => WriteFails
        /\ wi > 1 =>
               LET loc == Resolve(JoinPath(OutputDir, files.pairs[wi - 1].k))
               IN  loc \in DOMAIN disk /\ disk[loc] = files.pairs[wi - 1].v.s

C4_Witness ==
    /\ Recovered
    /\ pc = "done"
    /\ Len(files.pairs) >= 2
    /\ events[Len(events)] = Completed(OutputDir)

\* C5: every run that has ended has ended with exactly one terminal event,
\* Failed or Completed, as its last event, whatever the raw model output.
C5_TerminalEvent ==
    pc \in {"done", "crashed"} =>
        /\ events # <<>>
        /\ events[Len(events)].tag \in {"Failed", "Completed"}
        /\ CountEvents("Failed") + CountEvents("Completed") = 1

IsPrefix(p, q) == Len(p) <= Len(q) /\ SubSeq(q, 1, Len(p)) = p

\* C6: no file is written and no directory is created at a place outside
\* the project root (the root and the directories leading to it excepted),
\* whatever the keys of the parse result.
C6_PathSafety ==
    /\ \A loc \in DOMAIN disk : InsideRoot(loc)
    /\ \A loc \in dirs : InsideRoot(loc) \/ IsPrefix(loc, OutputDir)

\* C7: nothing is created or written on disk unless the recovered value has
\* validated as a FileMap; a FileMap is a mapping whose every value is text,
\* so a parse result with a non-text value at a later entry causes no write
\* of the earlier entries.
C7_ValidateBeforeWrite ==
    (disk # NoFiles \/ dirs # {}) =>
        /\ files.t = "dict"
        /\ \A i \in 1..Len(files.pairs) : files.pairs[i].v.t = "str"

\* C8: when the stream fails after fragments were accumulated,
\* ask_ai_stream returns the text accumulated so far, not a failure value.
C8_PartialOnError ==
    (streamEnd = "error" /\ full_output # <<>>) => project_code = PyStr(full_output)

\* the fragments of the well-formed lines, in arrival order
RECURSIVE WellFormedText(_)
WellFormedText(ls) ==
    IF ls = <<>> THEN <<>>
    ELSE LET d == LineDelta(Head(ls))
         IN  (IF d.kind = "delta" /\ d.val.t = "str" THEN d.val.s ELSE <<>>)
             \o WellFormedText(Tail(ls))

\* C9: the text ask_ai_stream returns is the concatenation, in arrival
\* order, of the content deltas of exactly the well-formed lines.
C9_StreamAssembly ==
    streamEnd = "graceful" => project_code = PyStr(WellFormedText(lines))

\* C10: clean_ai_output is idempotent.
C10_Idempotent ==
    tpc = "twice" => twice = once

\* small occurs in big as one contiguous run of characters
IsSubstring(small, big) ==
    \E i \in 1..(Len(big) + 1) :
        /\ i + Len(small) - 1 <= Len(big)
        /\ SubSeq(big, i, i + Len(small) - 1) = small

\* C11: clean_ai_output is a pure lossy trim: its result is never longer
\* than its input and is the input with a prefix and a suffix deleted (a
\* contiguous run of the input's characters, nothing inserted).
C11_LossyTrim ==
    tpc \in {"once", "twice"} =>
        /\ Len(once) <= Len(txt)
        /\ IsSubstring(once, txt)

C11_Witness ==
    /\ tpc = "once"
    /\ StartsWith(txt, Fence)
    /\ EndsWith(txt, Fence)
    /\ once # <<>>
    /\ Len(once) < Len(txt) - 6

\* the characters of s at the positions outside gone, in order
RECURSIVE Without(_, _, _)
Without(s, i, gone) ==
    IF i > Len(s) THEN <<>>
    ELSE (IF i \in gone THEN <<>> ELSE <<s[i]>>) \o Without(s, i + 1, gone)

\* position i holds a comma that only whitespace parts from a closer at j
CommaBeforeCloser(s, i, j) ==
    /\ i < j
    /\ j <= Len(s)
    /\ s[i] = ","
    /\ s[j] \in Closers
    /\ \A m \in (i + 1)..(j - 1) : s[m] \in PyWs

\* rule (a): each comma before a closer goes, with the whitespace between them
RuleA(s) ==
    Without(s, 1, {k \in 1..Len(s) :
                      \E i \in 1..k, j \in (k + 1)..Len(s) :
                          CommaBeforeCloser(s, i, j)})

\* rule (b): each single quote not preceded by a backslash becomes a double quote
RuleB(s) ==
    [i \in 1..Len(s) |->
        IF s[i] # "'" THEN s[i]
        ELSE IF i = 1 THEN "\""
        ELSE IF s[i - 1] = "\\" THEN "'" ELSE "\""]

\* rule (c): an opening brace is put in front of a text that starts with neither
RuleC(s) == IF s # <<>> /\ Head(s) \in {"{", "["} THEN s ELSE <<"{">> \o s

\* rule (d): a closing brace is put after a text that ends with neither
RuleD(s) == IF s # <<>> /\ s[Len(s)] \in Closers THEN s ELSE s \o <<"}">>

FourRules(x) == RuleD(RuleC(RuleB(RuleA(x))))

\* C12 as stated: for every text x, local_json_repair returns x with rules
\* (a), (b), (c), (d) applied in this order.
C12_FourRulesOfInput == tpc = "repaired" => repaired = FourRules(txt)

\* C12: for every text x, local_json_repair returns a text: x without its
\* leading and trailing whitespace, then with rules (a), (b), (c), (d) applied
\* in this order, rule (a) taking each comma together with the whitespace
\* between it and the closer.
C12_FourRulesOfStripped == tpc = "repaired" => repaired = FourRules(Strip(txt))

C12_Witness ==
    /\ tpc = "repaired"
    /\ txt # Strip(txt)
    /\ RuleA(Strip(txt)) # Strip(txt)
    /\ RuleB(RuleA(Strip(txt))) # RuleA(Strip(txt))
    /\ Head(Strip(txt)) \notin {"{", "["}
    /\ repaired # FourRules(txt)


CountCalls(fn) == Cardinality({i \in 1..Len(calls) : calls[i].fn = fn})
CountCallsAt(line) == Cardinality({i \in 1..Len(calls) : calls[i].line = line})

\* C13: whenever the FileMap of a run is recovered by the local repair tier
\* and the run writes its files and completes, the event stream holds exactly
\* one Warning event, before every FileWritten event, and ends with Completed.
C13_LocalRecoveryWarns ==
    (tier = "local" /\ pc = "done" /\ HasEvent("FileWritten")) =>
        /\ CountEvents("Warning") = 1
        /\ \A i, j \in 1..Len(events) :
               (events[i].tag = "Warning" /\ events[j].tag = "FileWritten") => i < j
        /\ events[Len(events)].tag = "Completed"

\* each tier is attempted at most once in a run
TiersAtMostOnce ==
    /\ CountCallsAt(154) <= 1
    /\ CountCalls("ask_ai") <= 1
    /\ CountCalls("local_json_repair") <= 1

\* C14: in every run there is at most one direct parse, at most one remote
\* repair request and at most one local_json_repair application, the remote
\* repair is requested only after the direct parse failed, and
\* local_json_repair is applied only after the remote repair failed (its
\* client failed or its text did not parse).
C14_TiersOnceInOrder ==
    /\ TiersAtMostOnce
    /\ CountCalls("ask_ai") = 1 => (CountCallsAt(154) = 1 /\ ~DirectParsed.ok)
    /\ CountCalls("local_json_repair") = 1 =>
           (CountCalls("ask_ai") = 1 /\ ~RemoteReturnedJson)

\* C15: local_json_repair is given the sanitized text the direct parse was
\* given, whatever the remote repairer answered; and when the remote client
\* returns failure, the run goes on to the local repair with no
\* clean_ai_output and no json.loads of a remote text.
C15_LocalRepairsDirectText ==
    /\ \A i \in 1..Len(calls) :
           calls[i].fn = "local_json_repair" =>
               /\ calls[i].arg = clean_ai_output(project_code.s)
               /\ \E j \in 1..(i - 1) :
                      /\ calls[j].fn = "json.loads"
                      /\ calls[j].line = 154
                      /\ calls[j].arg = calls[i].arg
    /\ (CountCalls("ask_ai") = 1 /\ fixed = PyNone) =>
           /\ CountCalls("clean_ai_output") = 1
           /\ CountCallsAt(105) = 0
           /\ CountCallsAt(107) = 0
           /\ pc = "local" \/ CountCalls("local_json_repair") = 1

C15_Witness ==
    /\ CountCalls("local_json_repair") = 1
    /\ fixed.t = "str"
    /\ fixed.s # <<>>
    /\ fixed.s # cleaned
    /\ pc = "write"

\* the listener's run of generate_project_with_progress is under way
Active(h) == hpc[h] \in {"streaming", "writing"}

\* the listener has started a run
RunStarted(h) == hpc[h] \in {"streaming", "writing", "done"}

\* C16: one click of the Generate button is processed as one generation
\* run: the click starts at most one run, and at no time are two runs started
\* by it active together.
C16_OneRunPerClick ==
    /\ Cardinality({h \in Listeners : RunStarted(h)}) <= 1
    /\ Cardinality({h \in Listeners : Active(h)}) <= 1

\* the text ask_ai_stream builds from the lines when every print succeeds
RECURSIVE TextIfDisplayed(_, _)
TextIfDisplayed(ls, full) ==
    IF ls = <<>> THEN full
    ELSE TextIfDisplayed(Tail(ls), Accumulate(full, LineDelta(Head(ls)), TRUE))

\* C17: the per-fragment print of ask_ai_stream is a side channel: for the
\* same lines, the text returned when some print fails is the text returned
\* when every print succeeds.
C17_ObserverSideChannel ==
    streamEnd = "graceful" => project_code = PyStr(TextIfDisplayed(lines, <<>>))

\* where entry i of the FileMap is written
EntryPlace(f, i) == Resolve(JoinPath(OutputDir, f.pairs[i].k))

\* the last of the first n entries written to the place of entry i
LastWriter(f, i, n) ==
    CHOOSE j \in i..n :
        /\ EntryPlace(f, j) = EntryPlace(f, i)
        /\ \A m \in (j + 1)..n : EntryPlace(f, m) # EntryPlace(f, i)

\* C18: writes are not transactional: when the write of the k-th entry of
\* the FileMap fails, the files of the first k-1 entries are on disk with
\* their new content, the FileWritten events are those of exactly these k-1
\* entries, and no Completed event is emitted.
C18_PartialWritesStay ==
    (pc = "crashed" /\ files.t = "dict") =>
        /\ WriteFails
        /\ events = <<Started>> \o WrittenEvents(files, wi - 1)
        /\ ~HasEvent("Completed")
        /\ \A i \in 1..(wi - 1) :
               /\ EntryPlace(files, i) \in DOMAIN disk
               /\ disk[EntryPlace(files, i)] =
                      files.pairs[LastWriter(files, i, wi - 1)].v.s

C18_Witness ==
    /\ pc = "crashed"
    /\ files.t = "dict"
    /\ wi >= 2
    /\ CountEvents("FileWritten") = wi - 1

\* C19: in every run no event follows a Failed or a Completed event, Failed
\* and Completed never both occur, and every FileWritten event comes after
\* the Started event.
C19_EventStreamShape ==
    /\ \A i \in 1..Len(events) :
           events[i].tag \in {"Failed", "Completed"} => i = Len(events)
    /\ ~(HasEvent("Failed") /\ HasEvent("Completed"))
    /\ \A i \in 1..Len(events) :
           events[i].tag = "FileWritten" => \E j \in 1..(i - 1) : events[j] = Started

C19_Witness ==
    /\ pc = "done"
    /\ events[Len(events)].tag = "Completed"
    /\ CountEvents("FileWritten") >= 2
    /\ events[1] = Started

\* C20: for every input text, the text local_json_repair returns starts with
\* an opening brace or bracket, ends with a closing brace or bracket, and has
\* no comma that only whitespace parts from a closing brace or bracket.
C20_RepairPostcondition ==
    tpc = "repaired" =>
        /\ repaired # <<>>
        /\ Head(repaired) \in {"{", "["}
        /\ repaired[Len(repaired)] \in Closers
        /\ ~\E i, j \in 1..Len(repaired) : CommaBeforeCloser(repaired, i, j)

====
